---- MODULE Spec2Model ----
(***************************************************************************)
(* A model of the amcat4 API layer: the role model and the access gate     *)
(* (api/common.py), the user endpoints (api/users.py), the index, document *)
(* and index-user endpoints (api/index.py) and the query pipeline          *)
(* (query.py).                                                             *)
(*                                                                         *)
(* Six specifications share the definitions:                               *)
(*   Spec             the index/document service over a fixed set of users *)
(*   SpecUsers        the user endpoints and the global role check         *)
(*   SpecQuery        query_documents against a search backend             *)
(*   SpecAnnotations  query_documents with annotations, against a backend  *)
(*                    that may send new cursor tokens                      *)
(*   SpecBody         build_body applied repeatedly to the same arguments  *)
(*   SpecSpans        extract_highlight_span applied to highlight fragments*)
(***************************************************************************)
EXTENDS Integers, Sequences, FiniteSets, TLC

VARIABLES
    users,          \* email -> number of User rows with that email
    global_role,    \* email -> global role (NoRole when none)
    indices,        \* names of the Index rows that exist
    guest_role,     \* index name -> guest role (NoRole when none)
    index_role,     \* <<index name, email>> -> IndexRole row (NoRole when absent)
    last,           \* the request handled last and its response (Idle between requests)
    ndocs,          \* the search backend: number of documents in the index
    es_scrolls,     \* the search backend: cursor -> open scroll context
    scrolled,       \* per cursor, what query_documents has returned for it so far
    qlast,          \* the query_documents call made last and what it returned
    queries,        \* build_body: the queries object passed in
    filters,        \* build_body: the filters object passed in
    highlight,      \* build_body: the highlight flag passed in
    bodies,         \* build_body: what the calls made so far returned, in order
    fragment,       \* extract_highlight_span: the highlight fragment passed in
    spans           \* extract_highlight_span: the spans it yielded (None before the call)

authVars == <<users, global_role, indices, guest_role, index_role, last>>
queryVars == <<ndocs, es_scrolls, scrolled, qlast>>
bodyVars == <<queries, filters, highlight, bodies>>
spanVars == <<fragment, spans>>
vars == <<authVars, queryVars, bodyVars, spanVars>>

-----------------------------------------------------------------------------
(* The role model (amcat4.auth.Role): a total order.                       *)

NoRole == 0
READER == 1
METAREADER == 2
WRITER == 3
ADMIN == 4

Roles == {READER, METAREADER, WRITER, ADMIN}
OptRoles == Roles \cup {NoRole}

Max(a, b) == IF a >= b THEN a ELSE b

(* The principals of the test fixtures (user, writer, admin) and one email *)
(* that is free at the start (username).                                   *)
Emails == {"admin", "writer", "user", "username"}
NoUser == "anonymous"
Principals == Emails \cup {NoUser}

IndexNames == {"articles"}
NoIndex == "none"

\* User.has_role: the global role is at least the role asked for.
UserHasRole(u, role) == global_role[u] >= role

\* The role a user holds on an index through the index itself: the explicit
\* assignment or the guest role, whichever is higher.
IndexGetRole(ix, u) == Max(index_role[<<ix, u>>], guest_role[ix])

\* Index.has_role: a global ADMIN has every role on every index.
IndexHasRole(ix, u, role) ==
    \/ global_role[u] = ADMIN
    \/ IndexGetRole(ix, u) >= role

\* check_role with the explicit-assignment lookup in place of Index.has_role.
check_role_explicit_only(u, role, ix) ==
    IF u = NoUser THEN "unauthorized"
    ELSE IF ix # NoIndex
         THEN (IF index_role[<<ix, u>>] >= role THEN "ok" ELSE "unauthorized")
         ELSE (IF UserHasRole(u, role) THEN "ok" ELSE "unauthorized")

\* check_role without the test for a missing principal.
check_role_no_principal_test(u, role, ix) ==
    IF ix # NoIndex
    THEN (IF u # NoUser /\ IndexHasRole(ix, u, role) THEN "ok" ELSE "unauthorized")
    ELSE (IF u = NoUser \/ UserHasRole(u, role) THEN "ok" ELSE "unauthorized")

\* check_role(role, ix) for the current principal u: "ok", or the Unauthorized
\* it raises.
check_role(u, role, ix) ==
    IF u = NoUser THEN "unauthorized"
    ELSE IF ix # NoIndex
         THEN (IF IndexHasRole(ix, u, role) THEN "ok" ELSE "unauthorized")
         ELSE (IF UserHasRole(u, role) THEN "ok" ELSE "unauthorized")

\* multi_auth.login_required / Depends(authenticated_user): the credential
\* verifies to an existing user.
authenticated_user(u) == u # NoUser /\ u \in Emails /\ users[u] > 0

\* Depends(authenticated_writer): an authenticated user with global WRITER.
authenticated_writer(u) == authenticated_user(u) /\ UserHasRole(u, WRITER)

-----------------------------------------------------------------------------
(* Requests and responses.                                                 *)

Idle == [op |-> "idle", actor |-> NoUser, email |-> "none", role |-> NoRole,
         status |-> "none", backend |-> FALSE]

Response(op, actor, email, role, status, backend) ==
    [op |-> op, actor |-> actor, email |-> email, role |-> role,
     status |-> status, backend |-> backend]

\* The response is sent; the next request is handled independently.
Respond ==
    /\ last # Idle
    /\ UNCHANGED <<queryVars, bodyVars, spanVars>>
    /\ last' = Idle
    /\ UNCHANGED <<users, global_role, indices, guest_role, index_role>>

-----------------------------------------------------------------------------
(* Persistence helpers (amcat4.index, amcat4.api.common).                  *)

\* _index(ix): the Index row, or 404.
IndexExists(ix) == ix \in indices

\* get_user_or_404(email)
UserExists(email) == users[email] > 0

\* get_indexrole_or_404(email, ix): the IndexRole row of (user, index), or 404.
IndexRoleExists(email, ix) ==
    /\ IndexExists(ix)
    /\ UserExists(email)
    /\ index_role[<<ix, email>>] # NoRole

\* Index.set_role(user, role): one row per (user, index); None removes it.
SetRole(ix, email, role) == [index_role EXCEPT ![<<ix, email>>] = role]

\* Index.delete_index(): the row goes, and its IndexRole rows with it.
DeleteIndexRoles(ix) ==
    [p \in IndexNames \X Emails |-> IF p[1] = ix THEN NoRole ELSE index_role[p]]

-----------------------------------------------------------------------------
(* api/index.py: index lifecycle.                                          *)

create_index(user, name, gr) ==
    /\ last = Idle
    /\ UNCHANGED <<queryVars, bodyVars, spanVars>>
    /\ IF ~authenticated_writer(user)
       THEN /\ last' = Response("create_index", user, "none", gr, "unauthorized", FALSE)
            /\ UNCHANGED <<indices, guest_role, index_role>>
       ELSE IF IndexExists(name)
       THEN /\ last' = Response("create_index", user, "none", gr, "error", FALSE)
            /\ UNCHANGED <<indices, guest_role, index_role>>
       ELSE /\ indices' = indices \cup {name}
            /\ guest_role' = [guest_role EXCEPT ![name] = gr]
            /\ index_role' = SetRole(name, user, ADMIN)
            /\ last' = Response("create_index", user, "none", gr, "ok", TRUE)
    /\ UNCHANGED <<users, global_role>>

\* modify_index without the second check for a guest role of ADMIN.
modify_index_writer_check_only(user, ix, gr) ==
    IF ~authenticated_user(user) THEN "unauthorized"
    ELSE IF ~IndexExists(ix) THEN "not_found"
    ELSE IF check_role(user, WRITER, ix) # "ok" THEN "unauthorized"
    ELSE "ok"

\* The outcome of modify_index(ix, guest_role) for the caller.
modify_index_status(user, ix, gr) ==
    IF ~authenticated_user(user) THEN "unauthorized"
    ELSE IF ~IndexExists(ix) THEN "not_found"
    ELSE IF check_role(user, WRITER, ix) # "ok" THEN "unauthorized"
    ELSE IF gr = ADMIN /\ check_role(user, ADMIN, ix) # "ok" THEN "unauthorized"
    ELSE "ok"

modify_index(user, ix, gr) ==
    /\ last = Idle
    /\ UNCHANGED <<queryVars, bodyVars, spanVars>>
    /\ LET s == modify_index_status(user, ix, gr) IN
       /\ guest_role' = IF s = "ok" THEN [guest_role EXCEPT ![ix] = gr] ELSE guest_role
       /\ last' = Response("modify_index", user, "none", gr, s, FALSE)
    /\ UNCHANGED <<users, global_role, indices, index_role>>

view_index(user, ix) ==
    /\ last = Idle
    /\ UNCHANGED <<queryVars, bodyVars, spanVars>>
    /\ LET s == IF ~authenticated_user(user) THEN "unauthorized"
                ELSE IF ~IndexExists(ix) THEN "not_found"
                ELSE check_role(user, METAREADER, ix) IN
       last' = Response("view_index", user, "none", NoRole, s, FALSE)
    /\ UNCHANGED <<users, global_role, indices, guest_role, index_role>>

delete_index(user, ix) ==
    /\ last = Idle
    /\ UNCHANGED <<queryVars, bodyVars, spanVars>>
    /\ LET s == IF ~authenticated_user(user) THEN "unauthorized"
                ELSE IF ~IndexExists(ix) THEN "not_found"
                ELSE check_role(user, ADMIN, ix) IN
       /\ last' = Response("delete_index", user, "none", NoRole, s, s = "ok")
       /\ IF s = "ok"
          THEN /\ indices' = indices \ {ix}
               /\ guest_role' = [guest_role EXCEPT ![ix] = NoRole]
               /\ index_role' = DeleteIndexRoles(ix)
          ELSE UNCHANGED <<indices, guest_role, index_role>>
    /\ UNCHANGED <<users, global_role>>

-----------------------------------------------------------------------------
(* api/index.py: documents and fields.  The search backend is external: a  *)
(* handler either reaches it (backend = TRUE) or not, and a document id    *)
(* given to it is found or not.                                            *)

\* check_role(user, role, _index(ix)) at the head of a document handler.
DocumentGate(user, ix, role) ==
    IF ~authenticated_user(user) THEN "unauthorized"
    ELSE IF ~IndexExists(ix) THEN "not_found"
    ELSE check_role(user, role, ix)

upload_documents(user, ix) ==
    /\ last = Idle
    /\ UNCHANGED <<queryVars, bodyVars, spanVars>>
    /\ LET s == DocumentGate(user, ix, WRITER) IN
       last' = Response("upload_documents", user, "none", NoRole, s, s = "ok")
    /\ UNCHANGED <<users, global_role, indices, guest_role, index_role>>

get_document(user, ix, found) ==
    /\ last = Idle
    /\ UNCHANGED <<queryVars, bodyVars, spanVars>>
    /\ LET s == DocumentGate(user, ix, READER) IN
       last' = Response("get_document", user, "none", NoRole,
                        IF s = "ok" /\ ~found THEN "not_found" ELSE s, s = "ok")
    /\ UNCHANGED <<users, global_role, indices, guest_role, index_role>>

update_document(user, ix, found) ==
    /\ last = Idle
    /\ UNCHANGED <<queryVars, bodyVars, spanVars>>
    /\ LET s == DocumentGate(user, ix, WRITER) IN
       last' = Response("update_document", user, "none", NoRole,
                        IF s = "ok" /\ ~found THEN "not_found" ELSE s, s = "ok")
    /\ UNCHANGED <<users, global_role, indices, guest_role, index_role>>

delete_document(user, ix, found) ==
    /\ last = Idle
    /\ UNCHANGED <<queryVars, bodyVars, spanVars>>
    /\ LET s == DocumentGate(user, ix, WRITER) IN
       last' = Response("delete_document", user, "none", NoRole,
                        IF s = "ok" /\ ~found THEN "not_found" ELSE s, s = "ok")
    /\ UNCHANGED <<users, global_role, indices, guest_role, index_role>>

\* get_fields: any authenticated user; the index names go straight to elastic.
get_fields(user, ix) ==
    /\ last = Idle
    /\ UNCHANGED <<queryVars, bodyVars, spanVars>>
    /\ LET s == IF ~authenticated_user(user) THEN "unauthorized" ELSE "ok" IN
       last' = Response("get_fields", user, "none", NoRole, s, s = "ok")
    /\ UNCHANGED <<users, global_role, indices, guest_role, index_role>>

set_fields(user, ix) ==
    /\ last = Idle
    /\ UNCHANGED <<queryVars, bodyVars, spanVars>>
    /\ LET s == DocumentGate(user, ix, WRITER) IN
       last' = Response("set_fields", user, "none", NoRole, s, s = "ok")
    /\ UNCHANGED <<users, global_role, indices, guest_role, index_role>>

\* get_values: any authenticated user.
get_values(user, ix) ==
    /\ last = Idle
    /\ UNCHANGED <<queryVars, bodyVars, spanVars>>
    /\ LET s == IF ~authenticated_user(user) THEN "unauthorized" ELSE "ok" IN
       last' = Response("get_values", user, "none", NoRole, s, s = "ok")
    /\ UNCHANGED <<users, global_role, indices, guest_role, index_role>>

\* refresh_index: no dependency on an authenticated user at all.
refresh_index(user, ix) ==
    /\ last = Idle
    /\ UNCHANGED <<queryVars, bodyVars, spanVars>>
    /\ last' = Response("refresh_index", user, "none", NoRole, "ok", TRUE)
    /\ UNCHANGED <<users, global_role, indices, guest_role, index_role>>

-----------------------------------------------------------------------------
(* api/index.py: the users of an index.  A role argument r is the member   *)
(* of Role that the role name of the request denotes.                      *)

list_index_users(user, ix) ==
    /\ last = Idle
    /\ UNCHANGED <<queryVars, bodyVars, spanVars>>
    /\ LET s == IF ~authenticated_user(user) THEN "unauthorized"
                ELSE IF ~IndexExists(ix) THEN "not_found"
                ELSE IF ~UserHasRole(user, ADMIN) THEN check_role(user, READER, ix)
                ELSE "ok" IN
       last' = Response("list_index_users", user, "none", NoRole, s, FALSE)
    /\ UNCHANGED <<users, global_role, indices, guest_role, index_role>>

add_index_users_status(user, ix, email, r) ==
    IF ~authenticated_user(user) THEN "unauthorized"
    ELSE IF ~IndexExists(ix) THEN "not_found"
    ELSE IF ~UserHasRole(user, ADMIN)
            /\ check_role(user, IF r = ADMIN THEN ADMIN ELSE WRITER, ix) # "ok"
         THEN "unauthorized"
    ELSE IF ~UserExists(email) THEN "not_found"
    ELSE "ok"

add_index_users(user, ix, email, r) ==
    /\ last = Idle
    /\ UNCHANGED <<queryVars, bodyVars, spanVars>>
    /\ LET s == add_index_users_status(user, ix, email, r) IN
       /\ index_role' = IF s = "ok" THEN SetRole(ix, email, r) ELSE index_role
       /\ last' = Response("add_index_users", user, email, r, s, FALSE)
    /\ UNCHANGED <<users, global_role, indices, guest_role>>

modify_index_user_status(user, ix, email, r) ==
    IF ~authenticated_user(user) THEN "unauthorized"
    ELSE IF ~IndexRoleExists(email, ix) THEN "not_found"
    ELSE IF ~UserHasRole(user, ADMIN)
            /\ check_role(user,
                          IF r = ADMIN \/ index_role[<<ix, email>>] = ADMIN
                          THEN ADMIN ELSE WRITER, ix) # "ok"
         THEN "unauthorized"
    ELSE "ok"

modify_index_user(user, ix, email, r) ==
    /\ last = Idle
    /\ UNCHANGED <<queryVars, bodyVars, spanVars>>
    /\ LET s == modify_index_user_status(user, ix, email, r) IN
       /\ index_role' = IF s = "ok" THEN SetRole(ix, email, r) ELSE index_role
       /\ last' = Response("modify_index_user", user, email, r, s, FALSE)
    /\ UNCHANGED <<users, global_role, indices, guest_role>>

remove_index_user_status(user, ix, email) ==
    IF ~authenticated_user(user) THEN "unauthorized"
    ELSE IF ~IndexRoleExists(email, ix) THEN "not_found"
    ELSE IF ~UserHasRole(user, ADMIN)
            /\ check_role(user,
                          IF index_role[<<ix, email>>] = ADMIN THEN ADMIN ELSE WRITER,
                          ix) # "ok"
         THEN "unauthorized"
    ELSE "ok"

remove_index_user(user, ix, email) ==
    /\ last = Idle
    /\ UNCHANGED <<queryVars, bodyVars, spanVars>>
    /\ LET s == remove_index_user_status(user, ix, email) IN
       /\ index_role' = IF s = "ok" THEN SetRole(ix, email, NoRole) ELSE index_role
       /\ last' = Response("remove_index_user", user, email, NoRole, s, FALSE)
    /\ UNCHANGED <<users, global_role, indices, guest_role>>

-----------------------------------------------------------------------------
(* query.py: build_body.  Python values: an optional value is <<>> (None)  *)
(* or <<v>>; a dict with string keys is a function from every key it may   *)
(* hold to an optional value; a dict whose order matters (queries,         *)
(* filters) is the sequence of its items.                                  *)

None == <<>>
Some(v) == <<v>>

RangeKeys == {"gt", "gte", "lt", "lte"}
FilterKeys == {"values", "value"} \cup RangeKeys
UnknownKeys == {"foo"}
AllKeys == FilterKeys \cup UnknownKeys

NoRange == [k \in RangeKeys |-> None]

\* The clauses build_body emits.
Term(field, v) ==
    [type |-> "term", field |-> field, value |-> v, range |-> NoRange,
     should |-> <<>>, query |-> ""]
Range(field, rangefilter) ==
    [type |-> "range", field |-> field, value |-> 0, range |-> rangefilter,
     should |-> <<>>, query |-> ""]
QueryString(q) ==
    [type |-> "query_string", field |-> "", value |-> 0, range |-> NoRange,
     should |-> <<>>, query |-> q]
BoolShould(clauses) ==
    [type |-> "should", field |-> "", value |-> 0, range |-> NoRange,
     should |-> clauses, query |-> ""]

\* The filter dict once parse_filter has popped every key it recognizes.
Popped(filter) == [k \in AllKeys |-> IF k \in FilterKeys THEN None ELSE filter[k]]

\* parse_filter(field, filter): the clause, whether ValueError is raised for
\* leftover keys, and the dict afterwards (every recognized key popped).
parse_filter(field, filter) ==
    LET vals == IF filter["values"] # None THEN filter["values"][1] ELSE <<>>
        valueTerms == [j \in 1..Len(vals) |-> Term(field, vals[j])]
        valueTerm == IF filter["value"] # None
                     THEN <<Term(field, filter["value"][1])>> ELSE <<>>
        rangefilter == [k \in RangeKeys |-> filter[k]]
        rangeClause == IF rangefilter # NoRange
                       THEN <<Range(field, rangefilter)>> ELSE <<>>
        after == Popped(filter)
    IN [error |-> \E k \in AllKeys : after[k] # None,
        clause |-> BoolShould(valueTerms \o valueTerm \o rangeClause),
        filter |-> after]

parse_query(q) == QueryString(q)

\* parse_queries(qs): the one query itself, or a should over all of them.
parse_queries(qs) ==
    IF Len(qs) = 1 THEN parse_query(qs[1].query)
    ELSE BoolShould([j \in 1..Len(qs) |-> parse_query(qs[j].query)])

MatchAllBody == [match_all |-> TRUE, filter |-> <<>>, highlight |-> FALSE]

\* build_body(queries, filters, highlight): the body, whether ValueError is
\* raised, and the filters object as the call leaves it.  The items are
\* parsed in order; the first ValueError ends the call.
build_body(qs, fs, hl) ==
    IF qs = <<>> /\ fs = <<>>
    THEN [error |-> FALSE, body |-> MatchAllBody, filters |-> fs]
    ELSE LET parsed == [j \in 1..Len(fs) |-> parse_filter(fs[j].field, fs[j].spec)]
             failed == {j \in 1..Len(fs) : parsed[j].error}
             reached(j) == \A i \in failed : j <= i
             after == [j \in 1..Len(fs) |->
                          IF reached(j)
                          THEN [field |-> fs[j].field, spec |-> parsed[j].filter]
                          ELSE fs[j]]
             clauses == [j \in 1..Len(fs) |-> parsed[j].clause]
                        \o (IF qs # <<>> THEN <<parse_queries(qs)>> ELSE <<>>)
         IN [error |-> failed # {},
             body |-> [match_all |-> FALSE, filter |-> clauses, highlight |-> hl],
             filters |-> after]

-----------------------------------------------------------------------------
(* The search backend (elastic.es), as query.py uses it.  The documents of *)
(* the index are 1..ndocs; every field of document i holds i, and its text *)
(* holds "cat" when i is odd and "dog" when i is even.                     *)

DocValue(i, field) == i

TextMatches(i, q) ==
    IF q = "cat" THEN i % 2 = 1 ELSE IF q = "dog" THEN i % 2 = 0 ELSE FALSE

RangeMatches(v, r) ==
    /\ r["gt"] # None => v > r["gt"][1]
    /\ r["gte"] # None => v >= r["gte"][1]
    /\ r["lt"] # None => v < r["lt"][1]
    /\ r["lte"] # None => v <= r["lte"][1]

LeafMatches(c, i) ==
    IF c.type = "term" THEN DocValue(i, c.field) = c.value
    ELSE IF c.type = "range" THEN RangeMatches(DocValue(i, c.field), c.range)
    ELSE TextMatches(i, c.query)

\* A bool query with no clause matches every document.
ClauseMatches(c, i) ==
    IF c.type = "should"
    THEN c.should = <<>> \/ \E j \in 1..Len(c.should) : LeafMatches(c.should[j], i)
    ELSE LeafMatches(c, i)

RECURSIVE Ascending(_)
Ascending(S) ==
    IF S = {} THEN <<>>
    ELSE LET m == CHOOSE x \in S : \A y \in S : x <= y
         IN <<m>> \o Ascending(S \ {m})

\* The ids of the documents a body matches, in the order the backend
\* returns them.
Matches(body) ==
    Ascending({i \in 1..ndocs :
                  body.match_all
                  \/ \A j \in 1..Len(body.filter) : ClauseMatches(body.filter[j], i)})

Min(a, b) == IF a <= b THEN a ELSE b

\* hits[from+1 .. from+size]
Window(hits, from, size) ==
    IF from >= Len(hits) THEN <<>>
    ELSE SubSeq(hits, from + 1, Min(from + size, Len(hits)))

\* Cursors are opaque tokens of the backend.  A cursor names one scroll
\* context and keeps naming it; a scroll on it returns the next size hits of
\* the matches found when the search was made.
Cursors == {"DXF1", "DXF2"}
StaleCursor == "DXF0"
NoContext == [open |-> FALSE, hits |-> <<>>, pos |-> 0, size |-> 0]

\* The tokens the backend may send with a batch of the context that cursor c
\* names: c again, or a token issued anew for the same context.
Reissued(c) == IF c = "DXF1" THEN "DXF1b" ELSE "DXF2b"
TokensOf(c) == {c, Reissued(c)}

FreeCursors == {c \in Cursors : ~es_scrolls[c].open}
NewCursor == CHOOSE c \in FreeCursors : TRUE

-----------------------------------------------------------------------------
(* query.py: QueryResult and query_documents.                              *)

MaxDocs == 3        \* documents in the index: 0..MaxDocs
MaxPerPage == 2     \* per_page: 1..MaxPerPage
MaxPage == 1        \* page: 0..MaxPage

Hit(i) == [_id |-> i]

\* ceil(n / per_page)
Ceil(n, d) == (n + d - 1) \div d

\* QueryResult.__init__ with page passed through where scroll_id is set.
QueryResult_keeps_page(data, n, per_page, page, page_count, scroll_id) ==
    [data |-> data,
     total_count |-> n,
     page |-> IF page = None THEN Some(0) ELSE page,
     page_count |-> IF n # None /\ page_count = None
                    THEN Some(Ceil(n[1], per_page[1])) ELSE page_count,
     per_page |-> per_page,
     scroll_id |-> scroll_id]

\* QueryResult.__init__(data, n, per_page, page, page_count, scroll_id)
QueryResult(data, n, per_page, page, page_count, scroll_id) ==
    [data |-> data,
     total_count |-> n,
     page |-> page,
     page_count |-> IF n # None /\ page_count = None
                    THEN Some(Ceil(n[1], per_page[1])) ELSE page_count,
     per_page |-> per_page,
     scroll_id |-> scroll_id]

NoResult == [data |-> <<>>, total_count |-> None, page |-> None,
             page_count |-> None, per_page |-> None, scroll_id |-> None]

\* QueryResult.as_dict: the keys of meta.
MetaKeys(r) ==
    {"total_count", "per_page", "page_count"}
    \cup (IF r.scroll_id # None THEN {"scroll_id"} ELSE {"page"})

ScrollArgs == {"none", "true", "5m"}

\* kwargs['scroll'] as query_documents sets it.
ScrollKeepAlive(scroll, scroll_id) ==
    IF scroll # "none" \/ scroll_id # None
    THEN Some(IF scroll = "none" \/ scroll = "true" THEN "2m" ELSE scroll)
    ELSE None

\* The scroll branch that hands an empty batch on as a QueryResult.
ScrollBatch_no_sentinel(hits, scroll_id) ==
    [outcome |-> "result",
     result |-> QueryResult([j \in 1..Len(hits) |-> Hit(hits[j])],
                            None, None, None, None, scroll_id)]

\* query_documents with a scroll_id, once es.scroll has answered: None for
\* an empty batch, else the batch under the cursor that was passed in.
ScrollBatch(hits, scroll_id) ==
    IF hits = <<>>
    THEN [outcome |-> "none", result |-> NoResult]
    ELSE [outcome |-> "result",
          result |-> QueryResult([j \in 1..Len(hits) |-> Hit(hits[j])],
                                 None, None, None, None, scroll_id)]

\* query_documents without a scroll_id, once es.search has answered.
SearchResult(hits, total, per_page, page, scroll, cursor) ==
    IF scroll # "none"
    THEN QueryResult([j \in 1..Len(hits) |-> Hit(hits[j])],
                     Some(total), Some(per_page), None, None, Some(cursor))
    ELSE QueryResult([j \in 1..Len(hits) |-> Hit(hits[j])],
                     Some(total), Some(per_page), Some(page), None, None)

\* hitdict with the _annotations key (query.py 128-130).
AnnotatedHit(i, ann) == [_id |-> i, _annotations |-> ann]

\* query_annotations(index, id, queries): what it returns or raises, and the
\* searches it has sent to the backend by then.  The loop takes the first
\* element of queries (for a dict: its first key, the label) and calls
\* build_body([query], {'_id': {'value': id}}, True); the list is truthy, so
\* parse_queries is applied to it and qs.values() raises AttributeError
\* before es.search is reached.  With nothing to iterate over the return
\* statement, which is inside the loop, is not reached: the result is None.
query_annotations(id, qs) ==
    IF qs = <<>>
    THEN [error |-> "none", annotations |-> None, searches |-> <<>>]
    ELSE [error |-> "AttributeError", annotations |-> None, searches |-> <<>>]

\* The hit loop of query_documents (query.py 126-135) over a result that is
\* returned: with annotations requested every hitdict carries _annotations.
Annotate(r, annotations, qs) ==
    IF ~annotations THEN r
    ELSE [r EXCEPT !.data =
             [j \in 1..Len(r.data) |->
                 AnnotatedHit(r.data[j]._id,
                              query_annotations(r.data[j]._id, qs).annotations)]]

\* The exception the hit loop raises at its first hit, or "none".
AnnotateError(hits, annotations, qs) ==
    IF annotations /\ hits # <<>>
    THEN query_annotations(hits[1], qs).error
    ELSE "none"

\* Some filter spec holds a key parse_filter does not know.
HasUnknownKey(fs) ==
    \E j \in 1..Len(fs) : \E k \in UnknownKeys : fs[j].spec[k] # None

\* The arguments of one query_documents call.
QRequest(qs, page, per_page, scroll, scroll_id, fs, hl, annotations) ==
    [queries |-> qs, page |-> page, per_page |-> per_page, scroll |-> scroll,
     scroll_id |-> scroll_id, filters |-> fs, highlight |-> hl,
     annotations |-> annotations]

QIdle == [op |-> "idle", queries |-> <<>>, unknown_keys |-> FALSE,
          annotations |-> FALSE,
          scroll |-> "none", scroll_id |-> None, page |-> 0,
          per_page |-> 0, outcome |-> "idle", result |-> NoResult, calls |-> <<>>,
          hits |-> <<>>, issued |-> None, searches |-> <<>>]

\* A call and what came of it: its arguments (of the filters, whether they
\* hold an unknown key; of the queries, those the hit loop hands to
\* query_annotations), the outcome and the result, the requests the
\* backend received (calls), the ids of the hits (hits) and the cursor
\* (issued) it answered with, and the searches query_annotations sent.
QResponse(req, outcome, result, calls, hits, issued, searches) ==
    [op |-> "query_documents",
     queries |-> IF req.annotations THEN req.queries ELSE <<>>,
     unknown_keys |-> HasUnknownKey(req.filters),
     annotations |-> req.annotations, scroll |-> req.scroll,
     scroll_id |-> req.scroll_id, page |-> req.page, per_page |-> req.per_page,
     outcome |-> outcome, result |-> result, calls |-> calls,
     hits |-> hits, issued |-> issued, searches |-> searches]

NotScrolled == [ids |-> <<>>, ended |-> FALSE, late |-> FALSE]

\* reissue: whether the backend sends a new token with a scroll batch.
query_documents(qs, page, per_page, scroll, scroll_id, fs, hl, annotations, reissue) ==
    LET req == QRequest(qs, page, per_page, scroll, scroll_id, fs, hl, annotations)
    IN
    /\ qlast = QIdle
    /\ UNCHANGED <<authVars, bodyVars, spanVars, ndocs>>
    /\ IF scroll_id # None
       THEN LET c == scroll_id[1] IN
            IF c \notin Cursors \/ ~es_scrolls[c].open
            THEN \* es.scroll raises: the cursor is not one the backend holds
                 /\ qlast' = QResponse(req, "backend_error", NoResult,
                                       <<"scroll">>, <<>>, None, <<>>)
                 /\ UNCHANGED <<es_scrolls, scrolled>>
            ELSE LET issued == IF reissue THEN Reissued(c) ELSE c
                     ctx == es_scrolls[c]
                     hits == Window(ctx.hits, ctx.pos, ctx.size)
                     r == ScrollBatch(hits, scroll_id)
                     raised == AnnotateError(hits, annotations, qs)
                 IN /\ es_scrolls' = [es_scrolls EXCEPT ![c].pos = @ + Len(hits)]
                    /\ IF raised # "none"
                       THEN /\ qlast' = QResponse(req, raised, NoResult, <<"scroll">>,
                                                  hits, Some(issued), <<>>)
                            /\ UNCHANGED scrolled
                       ELSE /\ qlast' = QResponse(req, r.outcome,
                                                  Annotate(r.result, annotations, qs),
                                                  <<"scroll">>, hits, Some(issued),
                                                  <<>>)
                            /\ scrolled' =
                                  [scrolled EXCEPT ![c] =
                                      IF r.outcome = "none"
                                      THEN [@ EXCEPT !.ended = TRUE]
                                      ELSE [ids |-> @.ids \o
                                                [j \in 1..Len(r.result.data) |->
                                                    r.result.data[j]._id],
                                            ended |-> @.ended,
                                            late |-> @.late \/ @.ended]]
       ELSE LET b == build_body(qs, fs, hl) IN
            IF b.error
            THEN /\ qlast' = QResponse(req, "ValueError", NoResult, <<>>, <<>>,
                                       None, <<>>)
                 /\ UNCHANGED <<es_scrolls, scrolled>>
            ELSE LET matched == Matches(b.body)
                     from == IF scroll = "none" THEN page * per_page ELSE 0
                     hits == Window(matched, from, per_page)
                     raised == AnnotateError(hits, annotations, qs)
                 IN IF scroll # "none"
                    THEN /\ FreeCursors # {}
                         /\ LET c == NewCursor
                                r == SearchResult(hits, Len(matched), per_page,
                                                  page, scroll, c)
                            IN /\ es_scrolls' =
                                     [es_scrolls EXCEPT ![c] =
                                         [open |-> TRUE, hits |-> matched,
                                          pos |-> Len(hits), size |-> per_page]]
                               /\ IF raised # "none"
                                  THEN /\ scrolled' = [scrolled EXCEPT ![c] = NotScrolled]
                                       /\ qlast' = QResponse(req, raised, NoResult,
                                                             <<"search">>, hits,
                                                             Some(c), <<>>)
                                  ELSE /\ scrolled' =
                                            [scrolled EXCEPT ![c] =
                                                [ids |-> [j \in 1..Len(r.data) |->
                                                             r.data[j]._id],
                                                 ended |-> FALSE, late |-> FALSE]]
                                       /\ qlast' = QResponse(req, "result",
                                                       Annotate(r, annotations, qs),
                                                       <<"search">>, hits, Some(c),
                                                       <<>>)
                    ELSE /\ qlast' =
                              IF raised # "none"
                              THEN QResponse(req, raised, NoResult, <<"search">>,
                                             hits, None, <<>>)
                              ELSE QResponse(req, "result",
                                       Annotate(SearchResult(hits, Len(matched),
                                                    per_page, page, scroll, StaleCursor),
                                                annotations, qs),
                                       <<"search">>, hits, None, <<>>)
                         /\ UNCHANGED <<es_scrolls, scrolled>>

\* query_documents has returned; the next call is independent.
QReturn ==
    /\ qlast # QIdle
    /\ qlast' = QIdle
    /\ UNCHANGED <<authVars, bodyVars, spanVars, ndocs, es_scrolls, scrolled>>

Query(label, q) == [label |-> label, query |-> q]

QueryArgs ==
    {<<>>, <<Query("a", "cat")>>, <<Query("a", "cat"), Query("b", "dog")>>}

\* A filter spec as the caller writes it.
FilterSpec(values, value, gte, foo) ==
    [k \in AllKeys |->
        IF k = "values" THEN values
        ELSE IF k = "value" THEN value
        ELSE IF k = "gte" THEN gte
        ELSE IF k = "foo" THEN foo
        ELSE None]

Filter(field, spec) == [field |-> field, spec |-> spec]

InitQueryIdle ==
    /\ ndocs = 0
    /\ es_scrolls = [c \in Cursors |-> NoContext]
    /\ scrolled = [c \in Cursors |-> NotScrolled]
    /\ qlast = QIdle

InitQuery ==
    /\ ndocs \in 0..MaxDocs
    /\ es_scrolls = [c \in Cursors |-> NoContext]
    /\ scrolled = [c \in Cursors |-> NotScrolled]
    /\ qlast = QIdle

\* The searches asked for: queries, filters and the highlight flag.
Search(qs, fs, hl) == [queries |-> qs, filters |-> fs, highlight |-> hl]

SearchArgs ==
    {Search(<<>>, <<>>, FALSE),
     Search(<<Query("a", "cat")>>, <<>>, TRUE),
     Search(<<Query("a", "cat"), Query("b", "dog")>>, <<>>, FALSE),
     Search(<<>>, <<Filter("year", FilterSpec(None, Some(1), None, None))>>, FALSE),
     Search(<<Query("a", "cat")>>,
            <<Filter("year", FilterSpec(Some(<<1, 2>>), None, Some(3), None))>>, TRUE),
     Search(<<>>, <<Filter("year", FilterSpec(None, None, None, Some(1)))>>, FALSE)}

NextQuery ==
    \/ QReturn
    \/ \E s \in SearchArgs,
          page \in 0..MaxPage, per_page \in 1..MaxPerPage,
          scroll \in ScrollArgs,
          scroll_id \in {None} \cup {Some(c) : c \in Cursors \cup {StaleCursor}} :
              query_documents(s.queries, page, per_page, scroll, scroll_id,
                              s.filters, s.highlight, FALSE, FALSE)

\* query_documents with annotations requested, against a backend that may
\* send a new cursor token with a scroll batch.  queries is a mapping (the
\* empty one where there is no query).
AnnotationSearches ==
    {Search(<<>>, <<>>, FALSE),
     Search(<<Query("a", "cat")>>, <<>>, TRUE),
     Search(<<Query("a", "cat"), Query("b", "dog")>>, <<>>, FALSE)}

NextAnnotations ==
    \/ QReturn
    \/ \E s \in AnnotationSearches,
          per_page \in 1..MaxPerPage,
          scroll \in {"none", "true"},
          scroll_id \in {None} \cup {Some(c) : c \in Cursors},
          annotations \in BOOLEAN :
              \E reissue \in (IF scroll_id = None THEN {FALSE} ELSE BOOLEAN) :
                  query_documents(s.queries, 0, per_page, scroll, scroll_id,
                                  s.filters, s.highlight, annotations, reissue)

-----------------------------------------------------------------------------
(* build_body called again and again with the same objects.                *)

MaxCalls == 2       \* calls of build_body on the same arguments

BodyFilterSpecs ==
    {FilterSpec(values, value, gte, foo) :
        values \in {None, Some(<<1, 2>>)}, value \in {None, Some(1)},
        gte \in {None, Some(2)}, foo \in {None, Some(1)}}

BodyFilterArgs ==
    {<<>>} \cup {<<Filter("year", sp)>> : sp \in BodyFilterSpecs}
    \cup {<<Filter("year", FilterSpec(None, Some(1), None, None)),
            Filter("party", FilterSpec(None, None, None, Some(1)))>>}

InitBodyIdle ==
    /\ queries = <<>>
    /\ filters = <<>>
    /\ highlight = FALSE
    /\ bodies = <<>>

InitBody ==
    /\ queries \in QueryArgs
    /\ filters \in BodyFilterArgs
    /\ highlight \in BOOLEAN
    /\ bodies = <<>>

\* One call build_body(queries, filters, highlight): what it returns (or
\* that it raised), and the filters object as it leaves it.
call_build_body ==
    /\ Len(bodies) < MaxCalls
    /\ LET b == build_body(queries, filters, highlight) IN
       /\ bodies' = Append(bodies, IF b.error
                                   THEN [error |-> TRUE, body |-> MatchAllBody]
                                   ELSE [error |-> FALSE, body |-> b.body])
       /\ filters' = b.filters
    /\ UNCHANGED <<queries, highlight, authVars, queryVars, spanVars>>

NextBody == call_build_body

-----------------------------------------------------------------------------
(* query.py: extract_highlight_span.  A string is the sequence of its      *)
(* characters.  A highlight fragment is what the backend makes of a field  *)
(* value: the value cut into segments, the matched ones wrapped in         *)
(* <em>...</em>.                                                           *)

MaxSegments == 3    \* segments of a field value: 1..MaxSegments

OpenTag == <<"<", "e", "m", ">">>
CloseTag == <<"<", "/", "e", "m", ">">>
Newline == "\n"

tagsize == 9        \* <em></em>

Segment(marked, text) == [marked |-> marked, text |-> text]

PlainTexts == {<<"T", "h", "e", " ">>, <<" ", "s", "a", "t">>, <<Newline>>}
MatchTexts == {<<"c", "a", "t">>, <<"a">>}

Segments ==
    {Segment(FALSE, t) : t \in PlainTexts} \cup {Segment(TRUE, t) : t \in MatchTexts}

Fragments == UNION {[1..n -> Segments] : n \in 1..MaxSegments}

RECURSIVE Render(_)
\* The highlight the backend returns: the matches between the markers.
Render(segs) ==
    IF segs = <<>> THEN <<>>
    ELSE (IF segs[1].marked THEN OpenTag \o segs[1].text \o CloseTag
          ELSE segs[1].text) \o Render(Tail(segs))

\* text[i..] starts with lit (positions from 1).
At(text, i, lit) ==
    /\ i + Len(lit) - 1 <= Len(text)
    /\ \A j \in 1..Len(lit) : text[i + j - 1] = lit[j]

\* '<em>.+</em>' tried at position s: where the closing tag of a match may
\* start.  '.' takes any character but a newline, '+' at least one.
CloseStarts(text, s) ==
    IF ~At(text, s, OpenTag) THEN {}
    ELSE {e \in (s + Len(OpenTag) + 1)..Len(text) :
             /\ At(text, e, CloseTag)
             /\ \A j \in (s + Len(OpenTag))..(e - 1) : text[j] # Newline}

\* '+' is greedy: of the ways to match at s, the longest.
MatchEnd(text, s) ==
    LET es == CloseStarts(text, s)
        e == CHOOSE x \in es : \A y \in es : y <= x
    IN e + Len(CloseTag)

RECURSIVE finditer(_, _)
\* finditer(regex, text) from position pos on: the matches from left to
\* right, none overlapping, as [start (from 0), the matched text's length].
finditer(text, pos) ==
    LET starts == {s \in pos..Len(text) : CloseStarts(text, s) # {}}
    IN IF starts = {} THEN <<>>
       ELSE LET s == CHOOSE x \in starts : \A y \in starts : x <= y
                end == MatchEnd(text, s)
            IN <<[start |-> s - 1, len |-> end - s]>> \o finditer(text, end)

\* extract_highlight_span(highlight): the spans it yields, in order.
extract_highlight_span(hl) ==
    LET ms == finditer(hl, 1)
    IN [i \in 1..Len(ms) |->
            [offset |-> ms[i].start - tagsize * (i - 1),
             length |-> ms[i].len - tagsize]]

InitSpansIdle ==
    /\ fragment = <<>>
    /\ spans = None

InitSpans ==
    /\ fragment \in Fragments
    /\ spans = None

\* One call extract_highlight_span(highlight), the generator run to its end.
call_extract_highlight_span ==
    /\ spans = None
    /\ spans' = Some(extract_highlight_span(Render(fragment)))
    /\ UNCHANGED <<fragment, authVars, queryVars, bodyVars>>

NextSpans == call_extract_highlight_span

-----------------------------------------------------------------------------
(* Spec: the index service.  The users are those of the test fixtures.     *)

FixtureRole(e) ==
    IF e = "admin" THEN ADMIN ELSE IF e = "writer" THEN WRITER ELSE NoRole

InitAuth ==
    /\ users = [e \in Emails |-> IF e \in {"admin", "writer", "user"} THEN 1 ELSE 0]
    /\ global_role = [e \in Emails |-> FixtureRole(e)]
    /\ indices = {}
    /\ guest_role = [ix \in IndexNames |-> NoRole]
    /\ index_role = [p \in IndexNames \X Emails |-> NoRole]
    /\ last = Idle

Init == InitAuth /\ InitQueryIdle /\ InitBodyIdle /\ InitSpansIdle

Next ==
    \/ Respond
    \/ \E user \in Principals, ix \in IndexNames :
        \/ \E gr \in OptRoles : create_index(user, ix, gr)
        \/ \E gr \in Roles : modify_index(user, ix, gr)
        \/ view_index(user, ix)
        \/ delete_index(user, ix)
        \/ upload_documents(user, ix)
        \/ \E found \in BOOLEAN : get_document(user, ix, found)
        \/ \E found \in BOOLEAN : update_document(user, ix, found)
        \/ \E found \in BOOLEAN : delete_document(user, ix, found)
        \/ get_fields(user, ix)
        \/ set_fields(user, ix)
        \/ get_values(user, ix)
        \/ refresh_index(user, ix)
        \/ list_index_users(user, ix)
        \/ \E email \in Emails, r \in Roles : add_index_users(user, ix, email, r)
        \/ \E email \in Emails, r \in Roles : modify_index_user(user, ix, email, r)
        \/ \E email \in Emails : remove_index_user(user, ix, email)

Spec == Init /\ [][Next]_vars

-----------------------------------------------------------------------------
(* api/users.py.  auth.create_user inserts a User row; delete_instance     *)
(* removes the row and, by cascade, its IndexRole rows.                    *)

GlobalRoleArgs == OptRoles      \* data.get('global_role'): absent or a role name

\* create_user without the test for an existing email.
create_user_no_duplicate_test(user, email, role) ==
    IF ~authenticated_user(user) THEN "unauthorized"
    ELSE IF check_role(user, WRITER, NoIndex) # "ok" THEN "unauthorized"
    ELSE IF role = ADMIN /\ check_role(user, ADMIN, NoIndex) # "ok" THEN "unauthorized"
    ELSE IF role # NoRole /\ role # ADMIN /\ role # WRITER THEN "bad_request"
    ELSE "created"

\* create_user without the second check for a global role of ADMIN.
create_user_writer_check_only(user, email, role) ==
    IF ~authenticated_user(user) THEN "unauthorized"
    ELSE IF check_role(user, WRITER, NoIndex) # "ok" THEN "unauthorized"
    ELSE IF UserExists(email) THEN "bad_request"
    ELSE IF role # NoRole /\ role # ADMIN /\ role # WRITER THEN "bad_request"
    ELSE "created"

\* The outcome of create_user for the caller.
create_user_status(user, email, role) ==
    IF ~authenticated_user(user) THEN "unauthorized"
    ELSE IF check_role(user, WRITER, NoIndex) # "ok" THEN "unauthorized"
    ELSE IF UserExists(email) THEN "bad_request"
    ELSE IF role = ADMIN /\ check_role(user, ADMIN, NoIndex) # "ok" THEN "unauthorized"
    ELSE IF role # NoRole /\ role # ADMIN /\ role # WRITER THEN "bad_request"
    ELSE "created"

create_user(user, email, role) ==
    /\ last = Idle
    /\ UNCHANGED <<queryVars, bodyVars, spanVars>>
    /\ LET s == create_user_status(user, email, role) IN
       /\ last' = Response("create_user", user, email, role, s, FALSE)
       /\ IF s = "created"
          THEN /\ users' = [users EXCEPT ![email] = @ + 1]
               /\ global_role' = [global_role EXCEPT ![email] = role]
          ELSE UNCHANGED <<users, global_role>>
    /\ UNCHANGED <<indices, guest_role, index_role>>

get_user(user, email) ==
    /\ last = Idle
    /\ UNCHANGED <<queryVars, bodyVars, spanVars>>
    /\ LET s == IF ~authenticated_user(user) THEN "unauthorized"
                ELSE IF user # email /\ check_role(user, WRITER, NoIndex) # "ok"
                     THEN "unauthorized"
                ELSE IF ~UserExists(email) THEN "not_found"
                ELSE "ok" IN
       last' = Response("get_user", user, email, NoRole, s, FALSE)
    /\ UNCHANGED <<users, global_role, indices, guest_role, index_role>>

\* The outcome of delete_user for the caller.
delete_user_status(user, email) ==
    IF ~authenticated_user(user) THEN "unauthorized"
    ELSE IF user # email /\ check_role(user, WRITER, NoIndex) # "ok" THEN "unauthorized"
    ELSE IF ~UserExists(email) THEN "not_found"
    ELSE IF global_role[email] = ADMIN /\ check_role(user, ADMIN, NoIndex) # "ok"
         THEN "unauthorized"
    ELSE "ok"

delete_user(user, email) ==
    /\ last = Idle
    /\ UNCHANGED <<queryVars, bodyVars, spanVars>>
    /\ LET s == delete_user_status(user, email) IN
       /\ last' = Response("delete_user", user, email, NoRole, s, FALSE)
       /\ IF s = "ok"
          THEN /\ users' = [users EXCEPT ![email] = @ - 1]
               /\ global_role' = [global_role EXCEPT ![email] = NoRole]
               /\ index_role' = [p \in IndexNames \X Emails |->
                                   IF p[2] = email THEN NoRole ELSE index_role[p]]
          ELSE UNCHANGED <<users, global_role, index_role>>
    /\ UNCHANGED <<indices, guest_role>>

get_token(user) ==
    /\ last = Idle
    /\ UNCHANGED <<queryVars, bodyVars, spanVars>>
    /\ last' = Response("get_token", user, "none", NoRole,
                        IF authenticated_user(user) THEN "ok" ELSE "unauthorized", FALSE)
    /\ UNCHANGED <<users, global_role, indices, guest_role, index_role>>

\* check_role(role) called for the current principal: g.current_user is a user
\* that verified, or None.
global_check(user, role) ==
    /\ last = Idle
    /\ UNCHANGED <<queryVars, bodyVars, spanVars>>
    /\ user = NoUser \/ authenticated_user(user)
    /\ last' = Response("check_role", user, "none", role,
                        check_role(user, role, NoIndex), FALSE)
    /\ UNCHANGED <<users, global_role, indices, guest_role, index_role>>

NextUsers ==
    \/ Respond
    \/ \E user \in Principals :
        \/ \E email \in Emails, role \in GlobalRoleArgs : create_user(user, email, role)
        \/ \E email \in Emails : get_user(user, email)
        \/ \E email \in Emails : delete_user(user, email)
        \/ get_token(user)
        \/ \E role \in Roles : global_check(user, role)

SpecUsers == Init /\ [][NextUsers]_vars

InitQueryDocs == InitAuth /\ InitQuery /\ InitBodyIdle /\ InitSpansIdle

SpecQuery == InitQueryDocs /\ [][NextQuery]_vars

InitAnnotations == InitAuth /\ InitQuery /\ InitBodyIdle /\ InitSpansIdle

SpecAnnotations == InitAnnotations /\ [][NextAnnotations]_vars

InitBodyArgs == InitAuth /\ InitQueryIdle /\ InitBody /\ InitSpansIdle

SpecBody == InitBodyArgs /\ [][NextBody]_vars

InitSpanArgs == InitAuth /\ InitQueryIdle /\ InitBodyIdle /\ InitSpans

SpecSpans == InitSpanArgs /\ [][NextSpans]_vars

-----------------------------------------------------------------------------
(* Claims about the access gate and the user endpoints.                    *)

\* The request just handled: its caller, target and role argument.
Caller == last'.actor
Target == last'.email
RoleArg == last'.role

\* C1: a global check (check_role with a role and no index) raises
\* Unauthorized when there is no authenticated principal; otherwise it passes
\* exactly when the principal's global role is at least the required role, so
\* a principal that passes a check requiring r2 passes every check requiring
\* r1 <= r2.
C1_GlobalCheck ==
    last.op = "check_role" =>
        /\ last.actor = NoUser => last.status = "unauthorized"
        /\ last.actor # NoUser =>
              (last.status = "ok" <=> global_role[last.actor] >= last.role)
        /\ last.status = "ok" =>
              \A r1 \in Roles :
                  r1 <= last.role => check_role(last.actor, r1, NoIndex) = "ok"

\* C1 witnesses: the check denied with no principal, and a WRITER check
\* passed by the global ADMIN.
C1_Witness ==
    /\ last.op = "check_role"
    /\ last.actor = "admin"
    /\ last.role = WRITER
    /\ last.status = "ok"

C1_WitnessAnonymous ==
    /\ last.op = "check_role"
    /\ last.actor = NoUser
    /\ last.status = "unauthorized"

\* The operations of api/index.py on an existing index.
IndexOps ==
    {"modify_index", "view_index", "delete_index", "upload_documents",
     "get_document", "update_document", "delete_document", "get_fields",
     "set_fields", "get_values", "refresh_index", "list_index_users",
     "add_index_users", "modify_index_user", "remove_index_user"}

\* C2: a principal whose global role is ADMIN is never refused by an
\* index-scoped check, whatever the guest role of the index and whether or
\* not the principal has an assignment on it; on an existing index the
\* operations that name no further object succeed.
C2_GlobalAdminPasses ==
    \A ix \in IndexNames :
        (/\ last.op \in IndexOps
         /\ authenticated_user(last.actor)
         /\ global_role[last.actor] = ADMIN)
        => /\ last.status # "unauthorized"
           /\ (IndexExists(ix) /\ last.op \in {"modify_index", "view_index",
                   "upload_documents", "set_fields", "list_index_users"})
              => last.status = "ok"

\* C2 witness: the global ADMIN declares field types on an index on which it
\* has no assignment and which has no guest role.
C2_Witness ==
    /\ last.op = "set_fields"
    /\ last.actor = "admin"
    /\ last.status = "ok"
    /\ last.backend
    /\ index_role[<<"articles", "admin">>] = NoRole
    /\ guest_role["articles"] = NoRole

\* A caller who is no global ADMIN and whose role on the index is exactly
\* WRITER, before the request.
IndexWriter(u, ix) ==
    /\ authenticated_user(u)
    /\ IndexExists(ix)
    /\ global_role[u] # ADMIN
    /\ IndexGetRole(ix, u) = WRITER

\* C3 (as claimed): in add_index_users, modify_index_user and
\* remove_index_user, for a caller who is exactly an index WRITER, a request
\* on an existing target that assigns ADMIN, or that changes or removes an
\* assignment whose current role is ADMIN, fails with Unauthorized and leaves
\* the assignments unchanged; the caller's other requests succeed.
C3_step ==
    \A ix \in IndexNames :
        (/\ last'.op \in {"add_index_users", "modify_index_user", "remove_index_user"}
         /\ IndexWriter(Caller, ix)
         /\ IF last'.op = "add_index_users"
            THEN UserExists(Target) ELSE IndexRoleExists(Target, ix))
        => IF RoleArg = ADMIN \/ index_role[<<ix, Target>>] = ADMIN
           THEN last'.status = "unauthorized" /\ index_role' = index_role
           ELSE last'.status = "ok"

C3_WriterCannotTouchAdmin == [][C3_step]_vars

\* C4: only a global ADMIN adds or deletes global admins.  create_user with
\* global_role ADMIN and delete_user of a global ADMIN succeed only for a
\* caller whose global role is ADMIN; for a global WRITER they fail and leave
\* the users as they were, with Unauthorized (create_user answers 400 first
\* when the email is already taken); the WRITER still creates users with no
\* role or with WRITER.
C4_step ==
    /\ (last'.op = "create_user" /\ RoleArg = ADMIN) =>
          /\ last'.status = "created" =>
                authenticated_user(Caller) /\ global_role[Caller] = ADMIN
          /\ (authenticated_user(Caller) /\ global_role[Caller] = WRITER) =>
                /\ last'.status =
                      (IF UserExists(Target) THEN "bad_request" ELSE "unauthorized")
                /\ users' = users
                /\ global_role' = global_role
    /\ (last'.op = "delete_user" /\ UserExists(Target) /\ global_role[Target] = ADMIN) =>
          /\ last'.status = "ok" =>
                authenticated_user(Caller) /\ global_role[Caller] = ADMIN
          /\ (authenticated_user(Caller) /\ global_role[Caller] = WRITER) =>
                /\ last'.status = "unauthorized"
                /\ users' = users
                /\ global_role' = global_role
    /\ (/\ last'.op = "create_user"
        /\ RoleArg \in {NoRole, WRITER}
        /\ authenticated_user(Caller)
        /\ global_role[Caller] = WRITER
        /\ ~UserExists(Target)) =>
          /\ last'.status = "created"
          /\ users'[Target] = 1
          /\ global_role'[Target] = RoleArg

C5_step ==
    /\ (last'.op = "create_user" /\ UserExists(Target)) =>
          /\ last'.status =
                (IF authenticated_user(Caller) /\ global_role[Caller] >= WRITER
                 THEN "bad_request" ELSE "unauthorized")
          /\ users' = users
          /\ global_role' = global_role
          /\ index_role' = index_role
    /\ \A e \in Emails : users'[e] <= 1
    /\ (/\ last'.op = "create_user"
        /\ ~UserExists(Target)
        /\ authenticated_user(Caller)
        /\ global_role[Caller] = ADMIN
        /\ RoleArg \in {NoRole, WRITER, ADMIN}) =>
          last'.status = "created" /\ users'[Target] = 1

C5_DuplicateRejected == [][C5_step]_vars

\* C5 witness: a duplicate create_user was answered 400.
C5_Witness ==
    /\ last.op = "create_user"
    /\ last.status = "bad_request"
    /\ last.role = NoRole
    /\ users[last.email] = 1

\* The role the service requires for an operation on an index.
RequiredRole(op) ==
    IF op = "view_index" THEN METAREADER
    ELSE IF op \in {"get_document", "get_fields", "get_values", "refresh_index"}
         THEN READER
    ELSE IF op = "delete_index" THEN ADMIN
    ELSE WRITER

GatedOps ==
    {"view_index", "delete_index", "upload_documents", "get_document",
     "update_document", "delete_document", "get_fields", "set_fields",
     "get_values", "refresh_index"}

\* C6 (as claimed): an index-scoped operation reaches the backend, or answers
\* with data, only for an authenticated principal whose role on the index is
\* at least the role the operation requires.
C6_step ==
    \A ix \in IndexNames :
        (/\ last'.op \in GatedOps
         /\ IndexExists(ix)
         /\ last'.backend \/ last'.status = "ok")
        => /\ authenticated_user(Caller)
           /\ IndexHasRole(ix, Caller, RequiredRole(last'.op))

C6_EveryOperationGated == [][C6_step]_vars

\* C7: modify_index sets the guest role to ADMIN only for a caller who holds
\* ADMIN on the index; a caller whose role on the index is WRITER sets any
\* other guest role, and is refused with Unauthorized, the guest role
\* unchanged, when asking for ADMIN.
C7_step ==
    \A ix \in IndexNames :
        last'.op = "modify_index" =>
            /\ (RoleArg = ADMIN /\ last'.status = "ok") =>
                  authenticated_user(Caller) /\ IndexHasRole(ix, Caller, ADMIN)
            /\ (guest_role'[ix] = ADMIN /\ guest_role[ix] # ADMIN) =>
                  authenticated_user(Caller) /\ IndexHasRole(ix, Caller, ADMIN)
            /\ IndexWriter(Caller, ix) =>
                  IF RoleArg = ADMIN
                  THEN last'.status = "unauthorized" /\ guest_role' = guest_role
                  ELSE last'.status = "ok" /\ guest_role'[ix] = RoleArg

C7_GuestAdminNeedsAdmin == [][C7_step]_vars

\* C7 witness: an index WRITER asked for a guest role of ADMIN and was refused.
C7_Witness ==
    /\ last.op = "modify_index"
    /\ last.role = ADMIN
    /\ last.status = "unauthorized"
    /\ authenticated_user(last.actor)
    /\ global_role[last.actor] # ADMIN
    /\ IndexGetRole("articles", last.actor) = WRITER

-----------------------------------------------------------------------------
(* Claims about the query pipeline.                                        *)

Range_(seq) == {seq[j] : j \in 1..Len(seq)}
NoDuplicates(seq) == \A i, j \in 1..Len(seq) : seq[i] = seq[j] => i = j

\* C8: the scroll protocol.  Opening a scroll returns a cursor and no page
\* number; every continue call with the cursor returns a non-empty batch
\* until the backend is exhausted and None from then on; the ids returned
\* for a cursor never repeat, are all matches, and are the whole match set
\* once None has been returned.
C8_ScrollProtocol ==
    /\ (/\ qlast.op = "query_documents"
        /\ qlast.scroll # "none"
        /\ qlast.scroll_id = None
        /\ qlast.outcome = "result")
       => /\ qlast.result.scroll_id # None
          /\ qlast.result.page = None
          /\ es_scrolls[qlast.result.scroll_id[1]].open
    /\ (qlast.scroll_id # None /\ qlast.outcome = "result")
       => /\ qlast.result.data # <<>>
          /\ ~scrolled[qlast.scroll_id[1]].ended
    /\ qlast.outcome = "none"
       => /\ qlast.scroll_id # None
          /\ scrolled[qlast.scroll_id[1]].ended
          /\ es_scrolls[qlast.scroll_id[1]].pos = Len(es_scrolls[qlast.scroll_id[1]].hits)
    /\ \A c \in Cursors :
          es_scrolls[c].open =>
             /\ NoDuplicates(scrolled[c].ids)
             /\ Range_(scrolled[c].ids) \subseteq Range_(es_scrolls[c].hits)
             /\ scrolled[c].ended =>
                   Range_(scrolled[c].ids) = Range_(es_scrolls[c].hits)
             /\ ~scrolled[c].late

\* C8 witness: a scroll of three matches, one per batch, has just ended with
\* None.
C8_Witness ==
    /\ qlast.outcome = "none"
    /\ qlast.scroll_id # None
    /\ es_scrolls[qlast.scroll_id[1]].size = 1
    /\ Len(scrolled[qlast.scroll_id[1]].ids) = 3
    /\ scrolled[qlast.scroll_id[1]].ended

Populated(o) == o # None

\* C9: every QueryResult that query_documents returns has exactly one of
\* page and scroll cursor populated: the page and no cursor in paged mode,
\* the cursor and no page when a scroll is opened or continued.
C9_PageXorCursor ==
    (qlast.op = "query_documents" /\ qlast.outcome = "result") =>
        LET r == qlast.result IN
        /\ Populated(r.page) # Populated(r.scroll_id)
        /\ (qlast.scroll_id = None /\ qlast.scroll = "none")
           => Populated(r.page) /\ r.page = Some(qlast.page) /\ ~Populated(r.scroll_id)
        /\ (qlast.scroll_id # None \/ qlast.scroll # "none")
           => Populated(r.scroll_id) /\ ~Populated(r.page)
        /\ Cardinality(MetaKeys(r) \cap {"page", "scroll_id"}) = 1

\* C9 witness: a batch returned for a cursor, with the cursor and no page.
C9_Witness ==
    /\ qlast.op = "query_documents"
    /\ qlast.scroll_id # None
    /\ qlast.outcome = "result"
    /\ qlast.result.scroll_id = qlast.scroll_id
    /\ qlast.result.page = None
    /\ es_scrolls[qlast.scroll_id[1]].size = 2
    /\ Len(qlast.result.data) = 1

\* C10 (as claimed): build_body is pure.  A call leaves the queries and the
\* filters passed in as they were, and returns what the call before it
\* returned for the same objects.
C10_step ==
    bodies' # bodies =>
        /\ filters' = filters
        /\ queries' = queries
        /\ Len(bodies) >= 1 => bodies'[Len(bodies')] = bodies[Len(bodies)]

C10_BuildBodyPure == [][C10_step]_vars

\* C11 (as claimed): a query_documents call whose filters hold, for some
\* field, a key other than value, values, gt, gte, lt, lte raises ValueError
\* before the backend receives a search or a scroll request, in paged,
\* scroll-open and scroll-continue mode alike.
C11_InvalidFilterRejected ==
    (qlast.op = "query_documents" /\ qlast.unknown_keys) =>
        /\ qlast.outcome = "ValueError"
        /\ qlast.calls = <<>>

ClientErrors == {"ValueError", "InvalidRequest"}

\* C12 (as claimed): a query_documents call that names a page together with
\* scroll or a scroll cursor is rejected as a client error before the
\* backend receives a request; neither mode wins silently.
C12_PageAndScrollRejected ==
    (/\ qlast.op = "query_documents"
     /\ qlast.page # 0
     /\ qlast.scroll # "none" \/ qlast.scroll_id # None) =>
        /\ qlast.outcome \in ClientErrors
        /\ qlast.calls = <<>>

RECURSIVE SpansFrom(_, _)
\* The matches of a segmented field value as spans of the value itself: the
\* k-th marked segment starts where the texts before it end.
SpansFrom(segs, offset) ==
    IF segs = <<>> THEN <<>>
    ELSE (IF segs[1].marked
          THEN <<[offset |-> offset, length |-> Len(segs[1].text)]>>
          ELSE <<>>)
         \o SpansFrom(Tail(segs), offset + Len(segs[1].text))

\* C13 (as claimed): for a fragment with k >= 1 marked matches,
\* extract_highlight_span yields k spans in order of occurrence, each with
\* the offset and the length of its match in the text without the markers.
C13_SpansOfOriginalText ==
    (spans # None /\ \E j \in 1..Len(fragment) : fragment[j].marked) =>
        spans[1] = SpansFrom(fragment, 0)

\* The fields of a document that a highlight may come from.
HighlightFields == {"text", "title"}

\* C14 (as claimed): a query_documents call with annotations requested and
\* a mapping of label to query string returns its hits, each annotated: for
\* every hit a highlighted search on _id = the hit's id for one query string
\* of the mapping has been sent, and every annotation record of the hit has
\* variable "lucene_query", as value that query string (not its label) and
\* as field a field of the document.
C14_AnnotationsPerHit ==
    (/\ qlast.op = "query_documents"
     /\ qlast.annotations
     /\ qlast.queries # <<>>
     /\ qlast.hits # <<>>) =>
        /\ qlast.outcome = "result"
        /\ Len(qlast.result.data) = Len(qlast.hits)
        /\ \A j \in 1..Len(qlast.hits) :
              /\ qlast.result.data[j]._id = qlast.hits[j]
              /\ qlast.result.data[j]._annotations # None
              /\ \E q \in 1..Len(qlast.queries) :
                    /\ \E n \in 1..Len(qlast.searches) :
                          /\ qlast.searches[n].id = qlast.hits[j]
                          /\ qlast.searches[n].query = qlast.queries[q].query
                          /\ qlast.searches[n].highlight
                    /\ \A a \in Range_(qlast.result.data[j]._annotations[1]) :
                          /\ a.variable = "lucene_query"
                          /\ a.value = qlast.queries[q].query
                          /\ a.field \in HighlightFields

\* The context a cursor token names.
ContextOf(t) == CHOOSE c \in Cursors : t \in TokensOf(c)

\* C15 (as claimed): the QueryResult of a scroll-continue call with a
\* non-empty batch has no total count, page or page count, and its cursor is
\* the one the backend sent with the batch, a cursor of the context scrolled.
C15_ContinueCarriesBackendCursor ==
    (/\ qlast.op = "query_documents"
     /\ qlast.scroll_id # None
     /\ qlast.outcome = "result") =>
        LET r == qlast.result IN
        /\ r.data # <<>>
        /\ r.total_count = None
        /\ r.page = None
        /\ r.page_count = None
        /\ r.scroll_id = qlast.issued
        /\ es_scrolls[ContextOf(r.scroll_id[1])].open

-----------------------------------------------------------------------------
(* A claim about the index roles.                                          *)

RoleOps == {"modify_index", "add_index_users", "modify_index_user", "remove_index_user"}

\* The caller is a global ADMIN or holds ADMIN on the index, before the
\* request.
IndexAdmin(u, ix) == u # NoUser /\ IndexHasRole(ix, u, ADMIN)

\* C16 (as claimed): a modify_index, add_index_users, modify_index_user or
\* remove_index_user call on an existing index by a principal that is no
\* global ADMIN and holds no ADMIN on the index makes no assignment on the
\* index ADMIN, does not make its guest role ADMIN, and leaves every ADMIN
\* assignment on it ADMIN; so does every sequence of such calls.
C16_step ==
    \A ix \in IndexNames :
        (/\ last'.op \in RoleOps
         /\ IndexExists(ix)
         /\ ~IndexAdmin(Caller, ix))
        => /\ \A e \in Emails :
                 /\ index_role'[<<ix, e>>] = ADMIN => index_role[<<ix, e>>] = ADMIN
                 /\ index_role[<<ix, e>>] = ADMIN => index_role'[<<ix, e>>] = ADMIN
           /\ guest_role'[ix] = ADMIN => guest_role[ix] = ADMIN

C16_NoEscalationToAdmin == [][C16_step]_vars

====
